---- MODULE Spec2Model ----
(***************************************************************************)
(* reskit.core.Pipeliner: plan generation with banned pairs, the prefix    *)
(* cache of transform_with_caching, and the per-row grid search and        *)
(* evaluation loop of get_results (src/reskit/core.py).                    *)
(*                                                                         *)
(* Data is modelled as a term: the input X followed by the stages applied  *)
(* to it, so two data values are equal exactly when they were obtained by  *)
(* the same stages in the same order from the same input (stages are       *)
(* deterministic and otherwise uninterpreted).                             *)
(***************************************************************************)
EXTENDS Integers, Sequences, FiniteSets, TLC

\* ------------------------------------------------------------------ bounds

MaxSteps == 2      \* steps declared to the constructor
MaxBanned == 1     \* banned combos declared to the constructor
MaxRepeat == 2     \* largest collect_n
MaxRuns == 2       \* get_results calls made on one Pipeliner
MaxCalls == 3      \* direct get_grid_search_results calls on one Pipeliner

\* ------------------------------------------------------------------ inputs

\* Variant names. "init" is an ordinary name for a caller and is also the key
\* of the cache's root entry (core.py:306-307).
Names == {"a", "b", "init"}

Metrics == {"acc", "auc"}

\* Initial values of eval_cv.random_state.
Seeds == {0, 5}

RECURSIVE SeqsUpTo(_, _)
SeqsUpTo(S, n) ==
    IF n = 0 THEN {<<>>}
    ELSE LET shorter == SeqsUpTo(S, n - 1)
         IN  shorter \cup {Append(s, e) : s \in shorter, e \in S}

Range(s) == {s[k] : k \in DOMAIN s}

NoDup(s) == \A p, q \in DOMAIN s : p # q => s[p] # s[q]

\* A step's variants: the names of one OrderedDict (unique, in insertion order).
VariantLists == {s \in SeqsUpTo(Names, Cardinality(Names)) : s # <<>> /\ NoDup(s)}

StepDecls == SeqsUpTo(VariantLists, MaxSteps) \ {<<>>}

BannedCombos == Names \X Names

BannedDecls == SeqsUpTo(BannedCombos, MaxBanned)

\* ------------------------------------------------------------------ state

VARIABLES
    pc,              \* where the caller / get_results is
    err,             \* the exception that left the last call, "none" if none
    steps,           \* constructor argument: per step, its variant names in order
    banned_combos,   \* constructor argument
    param_grid,      \* self.param_grid
    plan_table,      \* self.plan_table: the rows, each a tuple of variant names
    random_state,    \* self.eval_cv.random_state
    cached_X,        \* self._cached_X: an OrderedDict as a sequence of [key, val]
    best_params,     \* self.best_params
    params,          \* parameters set on the registered variants (named_steps)
    runs,            \* get_results calls made so far
    X,               \* get_results argument: the number of the data set
    caching_steps,   \* get_results argument: step indices, as listed by the caller
    scoring,         \* get_results argument, as a list
    collect_n,       \* get_results argument; 0 stands for None and 0 (both falsy)
    idx,             \* get_results: current plan row (1-based)
    mi,              \* get_results: current metric (1-based)
    X_featured,      \* get_results: what transform_with_caching returned
    invoked,         \* stages applied by the last transform_with_caching call
    grid_res,        \* what the last get_grid_search_results call returned
    scores,          \* get_scores: the list being built / returned
    i,               \* get_scores: loop counter
    init_random_state, \* get_scores: saved seed
    seeds,           \* seeds under which the passes of the current get_scores ran
    seed_before,     \* eval_cv.random_state when the current get_scores was entered
    log,             \* operations get_results performed: <<op, row, metric>>
    returned         \* <<table>> once get_results returned, <<>> otherwise

vars == <<pc, err, steps, banned_combos, param_grid, plan_table, random_state,
          cached_X, best_params, params, runs, X, caching_steps, scoring,
          collect_n, idx, mi, X_featured, invoked, grid_res, scores, i,
          init_random_state, seeds, seed_before, log, returned>>

objVars == <<steps, banned_combos, param_grid>>

callVars == <<X, caching_steps, scoring, collect_n>>

\* ------------------------------------------------------------------ __init__

RECURSIVE product_first_fastest(_)
product_first_fastest(column_keys) ==
    IF column_keys = <<>> THEN << <<>> >>
    ELSE LET n == Len(column_keys)
             rest == product_first_fastest(SubSeq(column_keys, 1, n - 1))
             RECURSIVE withLasts(_)
             withLasts(lasts) ==
                 IF lasts = <<>> THEN <<>>
                 ELSE [k \in 1..Len(rest) |-> Append(rest[k], Head(lasts))]
                      \o withLasts(Tail(lasts))
         IN  withLasts(column_keys[n])

\* itertools.product(*column_keys): lexicographic, first list slowest.
RECURSIVE product(_)
product(column_keys) ==
    IF column_keys = <<>> THEN << <<>> >>
    ELSE LET rest == product(Tail(column_keys))
             RECURSIVE withHeads(_)
             withHeads(heads) ==
                 IF heads = <<>> THEN <<>>
                 ELSE [k \in 1..Len(rest) |-> <<Head(heads)>> \o rest[k]]
                      \o withHeads(Tail(heads))
         IN  withHeads(Head(column_keys))

accept_if_row_within_combo(row_keys, banned_combo) ==
    IF Range(row_keys) \ Range(banned_combo) = {} THEN FALSE ELSE TRUE

accept_unless_any_name_in_row(row_keys, banned_combo) ==
    IF Range(banned_combo) \cap Range(row_keys) # {} THEN FALSE ELSE TRUE

\* core.py:118-122
accept_from_banned_combos(row_keys, banned_combo) ==
    IF Range(banned_combo) \ Range(row_keys) = {} THEN FALSE ELSE TRUE

\* accept = [...]; all(accept)
all_accept(row_keys, banned) ==
    \A k \in DOMAIN banned : accept_from_banned_combos(row_keys, banned[k])

plan_rows(stepDecl, banned) ==
    SelectSeq(product(stepDecl), LAMBDA row_keys : all_accept(row_keys, banned))

\* The stages registered under named_steps.
Stages(stepDecl) ==
    UNION {{<<c, stepDecl[c][k]>> : k \in DOMAIN stepDecl[c]} : c \in DOMAIN stepDecl}

\* ------------------------------------------------------------------ OrderedDict

od_keys(d) == [k \in DOMAIN d |-> d[k].key]

od_has(d, key) == \E k \in DOMAIN d : d[k].key = key

od_get(d, key) == d[CHOOSE k \in DOMAIN d : d[k].key = key].val

\* d[key] = val: an existing key keeps its place, a new key goes last.
od_put(d, key, val) ==
    IF od_has(d, key)
    THEN [k \in DOMAIN d |-> IF d[k].key = key THEN [key |-> key, val |-> val] ELSE d[k]]
    ELSE Append(d, [key |-> key, val |-> val])

od_del(d, key) == SelectSeq(d, LAMBDA e : e.key # key)

\* dict with string keys, as a function
dict_put(d, key, val) ==
    [k \in DOMAIN d \cup {key} |-> IF k = key THEN val ELSE d[k]]

\* ------------------------------------------------------------------ stages

\* The names core.py binds at module level (its imports, lines 3-19).
ModuleNames == {"copy", "Parallel", "delayed", "cross_val_score", "cross_val_predict",
                "GridSearchCV", "check_scoring", "Pipeline", "TransformerMixin",
                "BaseEstimator", "OrderedDict", "product", "DataFrame", "dump",
                "load", "mean", "std", "hstack", "vstack", "zeros", "array",
                "time", "os"}

\* transformer.fit_transform(X): deterministic, uninterpreted.
fit_transform(transformer, data) == Append(data, transformer)

\* self.named_steps[column][row_key] is defined
registered(named_steps, column, row_key) ==
    /\ column \in DOMAIN named_steps
    /\ row_key \in Range(named_steps[column])

\* ------------------------------------------------------------------ transform_with_caching

\* list.remove(x): drops the first occurrence
RECURSIVE list_remove(_, _)
list_remove(l, x) ==
    IF l = <<>> THEN <<>>
    ELSE IF Head(l) = x THEN Tail(l)
    ELSE <<Head(l)>> \o list_remove(Tail(l), x)

RECURSIVE unmatched_after_zip(_, _, _)
unmatched_after_zip(unmatched, row_keys, cached_keys) ==
    IF row_keys = <<>> \/ cached_keys = <<>> THEN unmatched
    ELSE IF ~(Head(row_keys) = Head(cached_keys)) THEN unmatched
    ELSE unmatched_after_zip(list_remove(unmatched, Head(row_keys)),
                             Tail(row_keys), Tail(cached_keys))

RECURSIVE od_del_all(_, _)
od_del_all(d, ks) ==
    IF ks = <<>> THEN d ELSE od_del_all(od_del(d, Head(ks)), Tail(ks))

\* core.py:287-296. The first statement reads the name cp.
remove_unmatched_caching_X(cache, row_keys) ==
    IF "cp" \notin ModuleNames
    THEN [err |-> "NameError", cache |-> cache]
    ELSE LET cached_keys == od_keys(cache)
             unmatched == unmatched_after_zip(cached_keys, row_keys, cached_keys)
         IN  [err |-> "none", cache |-> od_del_all(cache, unmatched)]

\* core.py:298-304. fail_at is the iteration whose fit_transform raises (0: none).
RECURSIVE transform_loop(_, _, _, _, _, _, _, _)
transform_loop(named_steps, cache, prev_key, row_keys, columns, fail_at, j, done) ==
    IF row_keys = <<>> \/ columns = <<>>
    THEN [err |-> "none", cache |-> cache, invoked |-> done]
    ELSE IF ~registered(named_steps, Head(columns), Head(row_keys))
    THEN [err |-> "KeyError", cache |-> cache, invoked |-> done]
    ELSE IF j = fail_at
    THEN [err |-> "StageError", cache |-> cache, invoked |-> done]
    ELSE LET transformer == <<Head(columns), Head(row_keys)>>
             data == od_get(cache, prev_key)
         IN  transform_loop(named_steps,
                            od_put(cache, Head(row_keys), fit_transform(transformer, data)),
                            Head(row_keys), Tail(row_keys), Tail(columns),
                            fail_at, j + 1, Append(done, transformer))

transform_X_from_last_cached(named_steps, cache, row_keys, columns, fail_at) ==
    transform_loop(named_steps, cache, od_keys(cache)[Len(cache)],
                   row_keys, columns, fail_at, 1, <<>>)

\* plan_table.columns[:n]
first_columns(named_steps, n) ==
    [k \in 1..(IF n < Len(named_steps) THEN n ELSE Len(named_steps)) |-> k]

\* plan_table.columns[-n:]  (n = 0 gives every column: [-0:] is [0:])
last_columns(named_steps, n) ==
    IF n = 0 \/ n >= Len(named_steps) THEN [k \in 1..Len(named_steps) |-> k]
    ELSE [k \in 1..n |-> Len(named_steps) - n + k]

\* core.py:285-322. Gives the cache afterwards and either the data returned or
\* the exception raised.
transform_with_caching(named_steps, cache, Xarg, row_keys, fail_at) ==
    LET columns == first_columns(named_steps, Len(row_keys))
        last_val(r) == r.cache[Len(r.cache)].val
        finish(r) == [err |-> r.err, cache |-> r.cache, invoked |-> r.invoked,
                      ret |-> IF r.err = "none" THEN last_val(r) ELSE <<>>]
    IN  IF ~od_has(cache, "init")
        THEN finish(transform_X_from_last_cached(
                        named_steps, od_put(cache, "init", <<Xarg>>),
                        row_keys, columns, fail_at))
        ELSE LET row_keys1 == <<"init">> \o row_keys
                 columns1 == <<"init">> \o columns
                 rm == remove_unmatched_caching_X(cache, row_keys1)
                 cached_keys_length == Len(rm.cache)
             IN  IF rm.err # "none"
                 THEN [err |-> rm.err, cache |-> rm.cache, invoked |-> <<>>, ret |-> <<>>]
                 ELSE IF cached_keys_length > Len(row_keys1)
                         \/ cached_keys_length > Len(columns1)
                 THEN [err |-> "IndexError", cache |-> rm.cache, invoked |-> <<>>,
                       ret |-> <<>>]
                 ELSE finish(transform_X_from_last_cached(
                                 named_steps, rm.cache,
                                 SubSeq(row_keys1, cached_keys_length + 1, Len(row_keys1)),
                                 SubSeq(columns1, cached_keys_length + 1, Len(columns1)),
                                 fail_at))

\* ------------------------------------------------------------------ parameter grids

EmptyAssignment == <<>>

\* A declared grid: parameter name -> list of candidate values.
EmptyGrid == <<>>

PenaltyGrid == [k \in {"penalty"} |-> <<"l1", "l2">>]

TwoParamGrid == [k \in {"penalty", "C"} |-> IF k = "C" THEN <<"1">> ELSE <<"l1", "l2">>]

GridDecls == {EmptyGrid, PenaltyGrid, TwoParamGrid}

\* param_grid arguments: some of the names declare a grid.
ParamGridDecls(declarable) ==
    UNION {[D -> GridDecls] : D \in SUBSET declarable}

\* sklearn's ParameterGrid: every assignment of one candidate per name; the
\* empty grid has exactly one candidate, the empty assignment.
ParameterGrid(grid) ==
    {f \in [DOMAIN grid -> UNION {Range(grid[k]) : k \in DOMAIN grid}] :
        \A k \in DOMAIN grid : f[k] \in Range(grid[k])}

\* '{}__{}'.format(classifier_key, key)
prefixed_key(classifier_key, key) == classifier_key \o "__" \o key

\* core.py:364-366
prefixed_grid(classifier_key, grid) ==
    [pk \in {prefixed_key(classifier_key, k) : k \in DOMAIN grid} |->
        grid[CHOOSE k \in DOMAIN grid : prefixed_key(classifier_key, k) = pk]]

strip_key_one_short(classifier_key, key) ==
    SubSeq(key, Len(classifier_key) + 2, Len(key))

\* key[classifier_key_len + 2:]
strip_key(classifier_key, key) == SubSeq(key, Len(classifier_key) + 3, Len(key))

\* core.py:378-382
strip_params(classifier_key, found) ==
    [k \in {strip_key(classifier_key, pk) : pk \in DOMAIN found} |->
        found[CHOOSE pk \in DOMAIN found : strip_key(classifier_key, pk) = k]]

\* ''.join(row_keys)
RECURSIVE join(_)
join(row_keys) ==
    IF row_keys = <<>> THEN "" ELSE Head(row_keys) \o join(Tail(row_keys))

\* ''.join(row_keys) + str(scoring)
param_key(row_keys, metric) == join(row_keys) \o metric

\* Values of the result dictionaries: a number a collaborator computed (named by
\* where it comes from), or a string.
Float(what) == <<"float", what>>

Str(what) == <<"str", what>>

\* str(d) of a dict d
StrOfDict(d) == <<"str", "dict", d>>

NaN == Str("NaN")

grid_key(metric, field) == "grid_" \o metric \o "_" \o field

GridFields == {"mean", "std", "best_params"}

set_params_keeping_old(old, assignment) ==
    [k \in DOMAIN old \cup DOMAIN assignment |->
        IF k \in DOMAIN old THEN old[k] ELSE assignment[k]]

\* estimator.set_params(**assignment)
set_params(old, assignment) ==
    [k \in DOMAIN old \cup DOMAIN assignment |->
        IF k \in DOMAIN assignment THEN assignment[k] ELSE old[k]]

no_grid_results_numeric_std(metric) ==
    [k \in {grid_key(metric, f) : f \in GridFields} |->
        IF k = grid_key(metric, "std") THEN Float("std_test_score") ELSE NaN]

\* core.py:403-406
no_grid_results(metric) == [k \in {grid_key(metric, f) : f \in GridFields} |-> NaN]

in_range_inclusive(k, n) == k <= n

\* for i in range(collect_n): the loop runs iteration i
in_range(k, n) == k < n

left_random_state(saved, current) == current

same_random_state(seed) == seed

\* self.eval_cv.random_state += 1
next_random_state(seed) == seed + 1

\* self.eval_cv.random_state = init_random_state
restored_random_state(saved, current) == saved

\* ------------------------------------------------------------------ get_results

\* row[caching_steps].values
caching_keys_of(row, cs) == [k \in DOMAIN cs |-> row[cs[k]]]

\* [step for step in columns if step not in caching_steps]
without_caching(ncols, cs) ==
    SelectSeq([k \in 1..ncols |-> k], LAMBDA c : c \notin Range(cs))

\* row[without_caching].values
ml_keys_of(row, cs) ==
    LET wc == without_caching(Len(row), cs) IN [k \in DOMAIN wc |-> row[wc[k]]]

CatchAndGoOn(e) ==
    /\ pc' = "grid"
    /\ err' = e

\* An exception leaves get_results: nothing catches it (core.py:209-259).
Propagate(e) ==
    /\ pc' = "raised"
    /\ err' = e

Advance_to_evaluation ==
    IF mi < Len(scoring)
    THEN /\ mi' = mi + 1
         /\ pc' = "scores"
         /\ UNCHANGED <<idx, returned>>
    ELSE IF idx < Len(plan_table)
    THEN /\ idx' = idx + 1
         /\ mi' = 1
         /\ pc' = "resolve"
         /\ UNCHANGED returned
    ELSE /\ pc' = "returned"
         /\ returned' = <<plan_table>>
         /\ UNCHANGED <<idx, mi>>

\* The end of the metric loop body: next metric, next row, or return results.
Advance ==
    IF mi < Len(scoring)
    THEN /\ mi' = mi + 1
         /\ pc' = "grid"
         /\ UNCHANGED <<idx, returned>>
    ELSE IF idx < Len(plan_table)
    THEN /\ idx' = idx + 1
         /\ mi' = 1
         /\ pc' = "resolve"
         /\ UNCHANGED returned
    ELSE /\ pc' = "returned"
         /\ returned' = <<plan_table>>
         /\ UNCHANGED <<idx, mi>>

\* ------------------------------------------------------------------ actions

\* Pipeliner(steps, grid_cv, eval_cv, param_grid, banned_combos), core.py:111-144.
\* DataFrame().from_dict([])[columns] raises KeyError when no row was accepted.
Construct ==
    /\ pc = "new"
    /\ LET rows == plan_rows(steps, banned_combos)
       IN  IF rows = <<>>
           THEN /\ pc' = "ctor_raised"
                /\ err' = "KeyError"
                /\ UNCHANGED <<plan_table, params>>
           ELSE /\ pc' = "ready"
                /\ plan_table' = rows
                /\ params' = [st \in Stages(steps) |-> EmptyAssignment]
                /\ UNCHANGED err
    /\ cached_X' = <<>>
    /\ best_params' = <<>>
    /\ UNCHANGED <<objVars, random_state, runs, callVars, idx, mi, X_featured, invoked,
                   grid_res, scores, i, init_random_state, seeds, seed_before, log,
                   returned>>

\* The caching_steps a caller may list: steps of the plan, each once, any order.
CachingChoices(ncols) == {cs \in SeqsUpTo(1..ncols, ncols) : NoDup(cs)}

ScoringChoices == {<<"acc">>, <<"acc", "auc">>}

\* get_results(X, y, caching_steps, scoring, logs_file, collect_n) up to the
\* first row, core.py:186-211. The r-th call on a Pipeliner is given data set r;
\* a later call repeats the first call's options.
GetResults ==
    /\ pc \in {"ready", "returned", "raised"}
    /\ runs < MaxRuns
    /\ runs' = runs + 1
    /\ X' = runs + 1
    /\ IF runs = 0
       THEN \E cs \in CachingChoices(Len(steps)), sc \in ScoringChoices,
               cn \in 0..MaxRepeat :
               /\ caching_steps' = cs
               /\ scoring' = sc
               /\ collect_n' = cn
       ELSE UNCHANGED <<caching_steps, scoring, collect_n>>
    /\ idx' = 1
    /\ mi' = 1
    /\ pc' = "resolve"
    /\ err' = "none"
    /\ returned' = <<>>
    /\ log' = <<>>
    /\ UNCHANGED <<objVars, plan_table, random_state, cached_X, best_params, params,
                   X_featured, invoked, grid_res, scores, i, init_random_state, seeds,
                   seed_before>>

\* One row's X_featured, y = self.transform_with_caching(X, y, caching_keys),
\* core.py:215-221.
Resolve ==
    /\ pc = "resolve"
    /\ LET caching_keys == caching_keys_of(plan_table[idx], caching_steps)
       IN  \E fail_at \in 0..Len(caching_keys) :
              LET r == transform_with_caching(steps, cached_X, X, caching_keys, fail_at)
              IN  /\ cached_X' = r.cache
                  /\ invoked' = r.invoked
                  /\ IF r.err = "none"
                     THEN /\ X_featured' = r.ret
                          /\ pc' = "grid"
                          /\ UNCHANGED err
                     ELSE /\ Propagate(r.err)
                          /\ UNCHANGED X_featured
    /\ log' = Append(log, <<"resolve", idx, "">>)
    /\ UNCHANGED <<objVars, plan_table, random_state, best_params, params, runs,
                   callVars, idx, mi, grid_res, scores, i, init_random_state, seeds,
                   seed_before, returned>>

\* grid_res = self.get_grid_search_results(X_featured, y, ml_keys, metric),
\* core.py:225-235 and 356-407.
GridSearch ==
    /\ pc = "grid"
    /\ LET metric == scoring[mi]
           row_keys == ml_keys_of(plan_table[idx], caching_steps)
           columns == last_columns(steps, Len(row_keys))
           classifier_key == row_keys[Len(row_keys)]
           key == param_key(row_keys, metric)
       IN  IF row_keys = <<>>
           THEN /\ Propagate("IndexError")
                /\ UNCHANGED <<best_params, grid_res>>
           ELSE IF classifier_key \in DOMAIN param_grid
           THEN IF \E k \in DOMAIN row_keys : ~registered(steps, columns[k], row_keys[k])
                THEN /\ Propagate("KeyError")
                     /\ UNCHANGED <<best_params, grid_res>>
                ELSE \E fits \in BOOLEAN :
                     IF ~fits
                     THEN /\ Propagate("FitError")
                          /\ UNCHANGED <<best_params, grid_res>>
                     ELSE \E found \in ParameterGrid(
                               prefixed_grid(classifier_key, param_grid[classifier_key])) :
                           LET best == strip_params(classifier_key, found)
                           IN  /\ best_params' = dict_put(best_params, key, best)
                               /\ grid_res' =
                                    [k \in {grid_key(metric, f) : f \in GridFields} |->
                                       IF k = grid_key(metric, "mean")
                                       THEN Float("mean_test_score")
                                       ELSE IF k = grid_key(metric, "std")
                                       THEN Float("std_test_score")
                                       ELSE StrOfDict(best)]
                               /\ pc' = "scores"
                               /\ UNCHANGED err
           ELSE /\ best_params' = dict_put(best_params, key, EmptyAssignment)
                /\ grid_res' = no_grid_results(metric)
                /\ pc' = "scores"
                /\ UNCHANGED err
    /\ log' = Append(log, <<"grid", idx, scoring[mi]>>)
    /\ UNCHANGED <<objVars, plan_table, random_state, cached_X, params, runs, callVars,
                   idx, mi, X_featured, invoked, scores, i, init_random_state, seeds,
                   seed_before, returned>>

\* scores = self.get_scores(X_featured, y, ml_keys, metric, collect_n) up to
\* the loop, core.py:238-241 and 442-458; without collect_n the whole call and
\* the rest of the metric loop body, core.py:245-257.
GetScores ==
    /\ pc = "scores"
    /\ LET metric == scoring[mi]
           row_keys == ml_keys_of(plan_table[idx], caching_steps)
           columns == last_columns(steps, Len(row_keys))
           key == param_key(row_keys, metric)
           last == <<columns[Len(row_keys)], row_keys[Len(row_keys)]>>
       IN  IF \E k \in DOMAIN row_keys : ~registered(steps, columns[k], row_keys[k])
           THEN /\ Propagate("KeyError")
                /\ UNCHANGED <<params, scores, i, init_random_state, seeds, idx, mi,
                               returned>>
           ELSE IF key \notin DOMAIN best_params
           THEN /\ Propagate("KeyError")
                /\ UNCHANGED <<params, scores, i, init_random_state, seeds, idx, mi,
                               returned>>
           ELSE /\ params' = [params EXCEPT ![last] = set_params(@, best_params[key])]
                /\ IF collect_n = 0
                   THEN \E scored \in BOOLEAN :
                          IF scored
                          THEN /\ scores' = <<"cross_val_score", metric, random_state>>
                               /\ Advance
                               /\ UNCHANGED <<err, i, init_random_state, seeds>>
                          ELSE /\ Propagate("ScoreError")
                               /\ UNCHANGED <<scores, i, init_random_state, seeds, idx,
                                              mi, returned>>
                   ELSE /\ init_random_state' = random_state
                        /\ scores' = <<>>
                        /\ seeds' = <<>>
                        /\ i' = 0
                        /\ pc' = "pass"
                        /\ UNCHANGED <<err, idx, mi, returned>>
    /\ log' = Append(log, <<"scores", idx, scoring[mi]>>)
    /\ seed_before' = random_state
    /\ UNCHANGED <<objVars, plan_table, random_state, cached_X, best_params, runs,
                   callVars, X_featured, invoked, grid_res>>

\* One iteration of the collect_n loop, core.py:459-466.
Pass ==
    /\ pc = "pass"
    /\ in_range(i, collect_n)
    /\ \E predicted \in BOOLEAN :
          IF predicted
          THEN /\ scores' = Append(scores, Float(<<scoring[mi], random_state>>))
               /\ seeds' = Append(seeds, random_state)
               /\ random_state' = next_random_state(random_state)
               /\ i' = i + 1
               /\ UNCHANGED <<pc, err>>
          ELSE /\ Propagate("PredictError")
               /\ UNCHANGED <<scores, seeds, random_state, i>>
    /\ UNCHANGED <<objVars, plan_table, cached_X, best_params, params, runs, callVars,
                   idx, mi, X_featured, invoked, grid_res, init_random_state,
                   seed_before, log, returned>>

\* The loop is over: restore the seed and return scores, core.py:468-469; then
\* the rest of the metric loop body, core.py:245-257.
GetScoresReturn ==
    /\ pc = "pass"
    /\ ~in_range(i, collect_n)
    /\ random_state' = restored_random_state(init_random_state, random_state)
    /\ Advance
    /\ UNCHANGED <<err, objVars, plan_table, cached_X, best_params, params, runs,
                   callVars, X_featured, invoked, grid_res, scores, i,
                   init_random_state, seeds, seed_before, log>>

\* ------------------------------------------------------------------ specifications

InitWith(stepSet, bannedSet, gridSet) ==
    /\ pc = "new"
    /\ err = "none"
    /\ steps \in stepSet
    /\ banned_combos \in bannedSet
    /\ param_grid \in gridSet
    /\ random_state \in Seeds
    /\ plan_table = <<>>
    /\ cached_X = <<>>
    /\ best_params = <<>>
    /\ params = <<>>
    /\ runs = 0
    /\ X = 0
    /\ caching_steps = <<>>
    /\ scoring = <<>>
    /\ collect_n = 0
    /\ idx = 0
    /\ mi = 0
    /\ X_featured = <<>>
    /\ invoked = <<>>
    /\ grid_res = <<>>
    /\ scores = <<>>
    /\ i = 0
    /\ init_random_state = 0
    /\ seeds = <<>>
    /\ seed_before = 0
    /\ log = <<>>
    /\ returned = <<>>

\* Plan building alone, over every declaration within the bounds.
InitPlan == InitWith(StepDecls, BannedDecls, {<<>>}) /\ random_state = 0

SpecPlan == InitPlan /\ [][Construct]_vars

\* Declarations for whole runs: one- and two-variant steps whose first rows
\* repeat a name, use distinct names, or use the name "init".
RunVariantLists == {<<"a">>, <<"a", "b">>, <<"b", "a">>, <<"init", "a">>}

\* One and two steps of these, and one declaration of three steps.
RunStepDecls ==
    {<<v>> : v \in RunVariantLists} \cup {<<v, w>> : v, w \in RunVariantLists}
    \cup {<<<<"a", "b">>, <<"b", "a">>, <<"a">>>>}

RunBannedDecls == {<<>>, <<<<"a", "a">>>>, <<<<"a", "b">>>>}

\* "a" declares no grid, an empty one, or one of two grids; or "init" declares
\* the grid of two parameters.
RunParamGrids == ParamGridDecls({"a"}) \cup {[n \in {"init"} |-> TwoParamGrid]}

Init == InitWith(RunStepDecls, RunBannedDecls, RunParamGrids)

Next ==
    \/ Construct
    \/ GetResults
    \/ Resolve
    \/ GridSearch
    \/ GetScores
    \/ Pass
    \/ GetScoresReturn

Spec == Init /\ [][Next]_vars

\* get_grid_search_results called directly on a constructed Pipeliner, for rows
\* of its plan in any order (core.py:324): the caller binds row_keys and scoring.
CallGridSearch ==
    /\ pc = "ready"
    /\ runs = 0
    /\ Len(log) < MaxCalls
    /\ \E r \in DOMAIN plan_table, metric \in Metrics :
          /\ idx' = r
          /\ scoring' = <<metric>>
    /\ mi' = 1
    /\ pc' = "grid"
    /\ UNCHANGED <<err, objVars, plan_table, random_state, cached_X, best_params,
                   params, runs, X, caching_steps, collect_n, X_featured, invoked,
                   grid_res, scores, i, init_random_state, seeds, seed_before, log,
                   returned>>

\* return results, to the direct caller (core.py:399, 407)
SearchReturn ==
    /\ pc = "scores"
    /\ runs = 0
    /\ pc' = "ready"
    /\ UNCHANGED <<err, objVars, plan_table, random_state, cached_X, best_params,
                   params, runs, callVars, idx, mi, X_featured, invoked, grid_res,
                   scores, i, init_random_state, seeds, seed_before, log, returned>>

\* Two steps whose variant names concatenate to the same string in two rows.
StoreStepDecls == {<<<<"a", "ab">>, <<"bc", "c">>>>, <<<<"a", "b">>, <<"c">>>>}

StoreParamGrids == {<<>>, [n \in {"bc", "c"} |-> PenaltyGrid]}

InitStore == InitWith(StoreStepDecls, {<<>>}, StoreParamGrids)

NextStore ==
    \/ Construct
    \/ CallGridSearch
    \/ GridSearch
    \/ SearchReturn

SpecStore == InitStore /\ [][NextStore]_vars

\* ------------------------------------------------------------------ claims: helpers

ContainsBoth(row, combo) == combo[1] \in Range(row) /\ combo[2] \in Range(row)

IsBanned(row) == \E b \in DOMAIN banned_combos : ContainsBoth(row, banned_combos[b])

\* One variant name per step, chosen among that step's variants.
Candidates(stepDecl) ==
    {r \in [DOMAIN stepDecl -> Names] : \A c \in DOMAIN stepDecl : r[c] \in Range(stepDecl[c])}

Position(list, name) == CHOOSE k \in DOMAIN list : list[k] = name

\* r1 comes before r2 in the product's lexicographic order.
LexLess(stepDecl, r1, r2) ==
    \E c \in DOMAIN stepDecl :
        /\ \A d \in 1..(c - 1) : r1[d] = r2[d]
        /\ Position(stepDecl[c], r1[c]) < Position(stepDecl[c], r2[c])

RECURSIVE VariantCountProduct(_)
VariantCountProduct(stepDecl) ==
    IF stepDecl = <<>> THEN 1
    ELSE Len(Head(stepDecl)) * VariantCountProduct(Tail(stepDecl))

Built == pc \notin {"new", "ctor_raised"}

\* caching_steps is a leading run of the steps, in step order.
LeadingRun(cs) == cs = [k \in DOMAIN cs |-> k]

\* The stages of the row's first k steps applied, in order, to data set Xn.
from_scratch(Xn, row, k) == <<Xn>> \o [j \in 1..k |-> <<j, row[j]>>]

\* Exceptions a collaborator (stage, search, scoring) raises.
CollaboratorErrors == {"StageError", "FitError", "ScoreError", "PredictError"}

LastOp == log[Len(log)][1]

\* transform_with_caching has just been called for row idx.
ResolveDone == log # <<>> /\ LastOp = "resolve" /\ pc \in {"grid", "raised"}

\* get_grid_search_results has just returned for row idx and metric mi.
GridReturned == pc = "scores"

\* get_scores has just returned normally.
ScoresReturned == log # <<>> /\ LastOp = "scores" /\ pc \in {"grid", "resolve", "returned"}

Suffix == ml_keys_of(plan_table[idx], caching_steps)

FinalVariant == Suffix[Len(Suffix)]

RECURSIVE CommonPrefix(_, _, _)
CommonPrefix(r1, r2, k) ==
    IF k = 0 THEN 0
    ELSE IF \A j \in 1..k : r1[j] = r2[j] THEN k
    ELSE CommonPrefix(r1, r2, k - 1)

ResolvedRows == SelectSeq(log, LAMBDA e : e[1] = "resolve")

\* ------------------------------------------------------------------ claims

\* C1 (as claimed): on a fresh Pipeliner with a leading run of cacheable steps,
\* every transform_with_caching(row) made in table order returns the row's
\* cacheable prefix applied from scratch to X, provided no stage raises.
C1_CacheOutputEquivalence ==
    (runs = 1 /\ LeadingRun(caching_steps) /\ ResolveDone /\ err # "StageError")
    => /\ pc = "grid"
       /\ X_featured = from_scratch(X, plan_table[idx], Len(caching_steps))

\* C2 (as claimed): when no stage raises, resolving a row applies exactly the
\* stages of the positions from the common prefix with the previous row on,
\* once each and in order (every cacheable position for the first row).
C2_CacheReuse ==
    (runs = 1 /\ LeadingRun(caching_steps) /\ ResolveDone /\ err # "StageError")
    => LET k == Len(caching_steps)
           row == plan_table[idx]
           p == IF idx = 1 THEN 0 ELSE CommonPrefix(plan_table[idx - 1], row, k)
       IN  invoked = [j \in 1..(k - p) |-> <<p + j, row[p + j]>>]

\* C3: no row of the plan table contains both names of a banned combo.
C3_NoBannedPairs ==
    \A r \in DOMAIN plan_table : \A b \in DOMAIN banned_combos :
        ~ContainsBoth(plan_table[r], banned_combos[b])

C3_Witness ==
    /\ pc = "ready"
    /\ Len(plan_table) >= 2
    /\ \E r \in Candidates(steps) : IsBanned(r)

C5_SeedRestored ==
    (ScoresReturned /\ collect_n > 0) => random_state = seed_before

C5_Witness ==
    /\ ScoresReturned
    /\ collect_n >= 2
    /\ Len(seeds) = collect_n
    /\ seeds[Len(seeds)] # seed_before
    /\ random_state = seed_before

\* C6: get_scores with collect_n = N > 0 returns exactly N scores, one
\* appended per loop iteration.
C6_ExactlyNScores ==
    /\ pc = "pass" => Len(scores) = i
    /\ (ScoresReturned /\ collect_n > 0) => Len(scores) = collect_n

C6_Witness ==
    /\ ScoresReturned
    /\ collect_n >= 2
    /\ Len(scores) = collect_n

\* C7 (as claimed): on a fresh Pipeliner, with a leading run of cacheable steps
\* that leaves a modelling suffix, get_results raises only what a collaborator
\* raised, and when it returns it has resolved every plan row once, in table
\* order, and returns one row per plan row.
C7_NormalCompletion ==
    (runs = 1 /\ LeadingRun(caching_steps) /\ Len(caching_steps) < Len(steps))
    => /\ err \in CollaboratorErrors \cup {"none"}
       /\ pc = "returned" =>
             /\ Len(returned[1]) = Len(plan_table)
             /\ ResolvedRows = [r \in DOMAIN plan_table |-> <<"resolve", r, "">>]

\* C8: once cache resolution, grid search or evaluation has raised, the
\* exception is the outcome of get_results, no table is returned, and nothing
\* more is done for that call: the next step, if any, is a new call.
C8_AbortOnFailure ==
    /\ [](err # "none" => pc \in {"raised", "ctor_raised"} /\ returned = <<>>)
    /\ [][err # "none" => runs' = runs + 1]_vars

C8_Witness ==
    /\ pc = "raised"
    /\ err = "PredictError"
    /\ runs = 1
    /\ idx < Len(plan_table)
    /\ mi < Len(scoring)
    /\ returned = <<>>

\* C9: when the final-stage variant of the suffix has no entry in param_grid,
\* get_grid_search_results returns the sentinel for grid mean, std and
\* best-params and stores an empty assignment under the (suffix, metric) key.
C9_GridSentinel ==
    (GridReturned /\ FinalVariant \notin DOMAIN param_grid)
    => /\ DOMAIN grid_res = {grid_key(scoring[mi], f) : f \in GridFields}
       /\ \A f \in GridFields : grid_res[grid_key(scoring[mi], f)] = NaN
       /\ param_key(Suffix, scoring[mi]) \in DOMAIN best_params
       /\ best_params[param_key(Suffix, scoring[mi])] = EmptyAssignment

C9_Witness ==
    /\ GridReturned
    /\ FinalVariant \notin DOMAIN param_grid
    /\ DOMAIN param_grid # {}
    /\ mi = 2
    /\ grid_res[grid_key(scoring[mi], "mean")] = NaN

\* C10 (as claimed): a final-stage variant declared in param_grid with an
\* empty mapping gets the sentinel for grid_<metric>_mean, as an undeclared
\* variant does.
C10_EmptyDeclarationSentinel ==
    (/\ GridReturned
     /\ FinalVariant \in DOMAIN param_grid
     /\ param_grid[FinalVariant] = EmptyGrid)
    => grid_res[grid_key(scoring[mi], "mean")] = NaN

\* The names that occur as a variant of some step.
DeclaredNames == UNION {Range(steps[c]) : c \in DOMAIN steps}

NamesUnknown(combo) == ~(combo[1] \in DeclaredNames /\ combo[2] \in DeclaredNames)

\* The banned combos whose two names are both declared.
KnownCombos == SelectSeq(banned_combos, LAMBDA combo : ~NamesUnknown(combo))

\* C11: a banned combo naming a variant that no step declares raises nothing
\* at plan build and rejects no row: the table holds the candidates that the
\* other combos leave, and every candidate when all combos are of that kind.
C11_UnknownBannedName ==
    /\ pc = "ctor_raised" => KnownCombos # <<>>
    /\ Built =>
          /\ Range(plan_table) =
                {r \in Candidates(steps) :
                    \A b \in DOMAIN KnownCombos : ~ContainsBoth(r, KnownCombos[b])}
          /\ KnownCombos = <<>> => Len(plan_table) = VariantCountProduct(steps)

C11_Witness ==
    /\ pc = "ready"
    /\ \E b \in DOMAIN banned_combos :
          /\ NamesUnknown(banned_combos[b])
          /\ banned_combos[b][1] \in DeclaredNames
          /\ banned_combos[b][2] \notin DeclaredNames
    /\ Len(plan_table) = VariantCountProduct(steps)
    /\ Len(plan_table) >= 2

\* The assignment stored under the key of the current row's suffix and metric.
StoredParams == best_params[param_key(Suffix, scoring[mi])]

\* C12: after a grid search over a declared grid, the best-params mapping
\* stored and reported has exactly the declared parameter names as keys, and
\* each value is one of the candidates declared for its name.
C12_BestParamsKeys ==
    (GridReturned /\ FinalVariant \in DOMAIN param_grid)
    => /\ param_key(Suffix, scoring[mi]) \in DOMAIN best_params
       /\ DOMAIN StoredParams = DOMAIN param_grid[FinalVariant]
       /\ \A k \in DOMAIN StoredParams :
             StoredParams[k] \in Range(param_grid[FinalVariant][k])
       /\ grid_res[grid_key(scoring[mi], "best_params")] = StrOfDict(StoredParams)

C12_Witness ==
    /\ GridReturned
    /\ FinalVariant = "init"
    /\ "init" \in DOMAIN param_grid
    /\ DOMAIN StoredParams = {"penalty", "C"}
    /\ StoredParams["penalty"] = "l2"
    /\ grid_res[grid_key(scoring[mi], "best_params")] = StrOfDict(StoredParams)

\* C13 (as claimed): whenever the cache is not empty, its first entry is the
\* root holding the input X, and every later entry holds the stage of its
\* position (the variant its key names, at that step) applied to the data of
\* the entry just before it.
C13_PrefixLineage ==
    (runs = 1 /\ LeadingRun(caching_steps) /\ cached_X # <<>>)
    => /\ cached_X[1] = [key |-> "init", val |-> <<X>>]
       /\ \A j \in 2..Len(cached_X) :
             cached_X[j].val =
                fit_transform(<<j - 1, cached_X[j].key>>, cached_X[j - 1].val)

\* C14 (as claimed): after every transform_with_caching(row) in which no stage
\* raises, the cache holds the root entry followed by one entry per position of
\* the row's cacheable keys, in that order, and the root still holds X.
C14_ChainShape ==
    (runs = 1 /\ LeadingRun(caching_steps) /\ ResolveDone /\ err # "StageError")
    => /\ od_keys(cached_X) =
             <<"init">> \o caching_keys_of(plan_table[idx], caching_steps)
       /\ cached_X[1].val = <<X>>

\* C15 (as claimed): when get_results returns, the cache is empty again, and
\* in a later get_results call every transform_with_caching in which no stage
\* raises returns data computed from that call's X.
C15_CacheDiscarded ==
    /\ pc = "returned" => cached_X = <<>>
    /\ (runs >= 2 /\ ResolveDone /\ err # "StageError")
       => /\ pc = "grid"
          /\ Head(X_featured) = X

\* The caching steps in step order.
StepOrder(cs) ==
    SelectSeq([k \in DOMAIN steps |-> k], LAMBDA c : c \in Range(cs))

\* C16 (as claimed): whatever subset of the steps the caller lists as
\* caching_steps, in whatever order, resolving the first row applies, in step
\* order, each cacheable step's chosen variant as registered under that step,
\* and no lookup of a chosen name under a step fails in any phase of the row.
C16_StageLookupByOwnStep ==
    (runs = 1 /\ idx = 1 /\ log # <<>>)
    => /\ err # "KeyError"
       /\ (ResolveDone /\ err = "none")
          => LET sc == StepOrder(caching_steps)
             IN  invoked = [k \in DOMAIN sc |-> <<sc[k], plan_table[1][sc[k]]>>]

\* The calls of row r for its first m metrics, after its resolution.
RECURSIVE MetricLog(_, _)
MetricLog(r, m) ==
    IF m = 0 THEN <<>>
    ELSE MetricLog(r, m - 1)
         \o << <<"grid", r, scoring[m]>>, <<"scores", r, scoring[m]>> >>

\* The calls of the first r rows, every phase of every metric.
RECURSIVE RowsLog(_)
RowsLog(r) ==
    IF r = 0 THEN <<>>
    ELSE RowsLog(r - 1) \o << <<"resolve", r, "">> >> \o MetricLog(r, Len(scoring))

IsPrefix(s, t) == Len(s) <= Len(t) /\ s = SubSeq(t, 1, Len(s))

\* C17: the calls get_results has started are always a prefix of: per row in
\* table order, its resolution, then per metric in order its grid search and
\* then its evaluation; and each call starts only when every call before it in
\* that sequence has completed.
C17_PhaseOrdering ==
    (runs >= 1)
    => LET resolved == RowsLog(idx - 1) \o << <<"resolve", idx, "">> >>
                          \o MetricLog(idx, mi - 1)
           searched == resolved \o << <<"grid", idx, scoring[mi]>> >>
       IN  /\ IsPrefix(log, RowsLog(Len(plan_table)))
           /\ pc = "resolve" => log = RowsLog(idx - 1)
           /\ pc = "grid" => log = resolved
           /\ pc = "scores" => log = searched
           /\ pc = "pass" => log = searched \o << <<"scores", idx, scoring[mi]>> >>
           /\ pc = "returned" => log = RowsLog(Len(plan_table))

C17_Witness ==
    /\ Len(scoring) = 2
    /\ collect_n > 0
    /\ Len(log) = 6
    /\ log[6] = <<"resolve", 2, "">>
    /\ log[5] = <<"scores", 1, scoring[2]>>

\* The stage the evaluation's pipeline ends with.
FinalStage == <<Len(steps), FinalVariant>>

\* C18: whenever the evaluation of a (row, metric) is about to run, the store
\* has an entry under that row's suffix and metric, which is what the grid
\* search of that same (row, metric) just reported; and the evaluation leaves
\* the final stage with exactly the parameters of that entry.
C18_OwnSearchResult ==
    /\ [](pc = "scores"
          => /\ param_key(Suffix, scoring[mi]) \in DOMAIN best_params
             /\ FinalVariant \in DOMAIN param_grid
                => grid_res[grid_key(scoring[mi], "best_params")]
                      = StrOfDict(StoredParams)
             /\ FinalVariant \notin DOMAIN param_grid
                => StoredParams = EmptyAssignment)
    /\ [][(pc = "scores" /\ err' # "KeyError")
          => params'[FinalStage] = StoredParams]_vars

C18_Witness ==
    /\ pc = "pass"
    /\ mi = 2
    /\ "penalty" \in DOMAIN StoredParams
    /\ StoredParams["penalty"] = "l2"
    /\ best_params[param_key(Suffix, scoring[1])]["penalty"] = "l1"
    /\ params[FinalStage] = StoredParams

\* The (suffix, metric) pairs whose grid search has stored its result.
SearchedPairs ==
    {<<ml_keys_of(plan_table[log[n][2]], caching_steps), log[n][3]>> :
        n \in {k \in DOMAIN log :
                 log[k][1] = "grid" /\ (k < Len(log) \/ pc # "raised")}}

\* C19 (as claimed): no step removes an entry of the best-params store, and
\* the store holds one entry per (suffix, metric) pair searched so far, two
\* different pairs never sharing an entry.
C19_StoreKeyedByPair ==
    /\ [](Cardinality(DOMAIN best_params) = Cardinality(SearchedPairs))
    /\ [][DOMAIN best_params \subseteq DOMAIN best_params']_vars

\* C20 (as claimed): when an iteration of the collect_n loop raises,
\* eval_cv.random_state is what it was before get_scores was called.
C20_SeedRestoredOnFailure ==
    (pc = "raised" /\ err = "PredictError") => random_state = seed_before

\* C21: in a repeated evaluation whose generator had seed s at the call, pass
\* number k (from 0) runs with seed s + k, so the passes made so far used
\* pairwise distinct seeds, and every pass advances the seed by exactly 1.
C21_SeedSchedule ==
    /\ [](pc = "pass"
          => /\ init_random_state = seed_before
             /\ Len(seeds) = i
             /\ \A k \in DOMAIN seeds : seeds[k] = seed_before + (k - 1)
             /\ \A j, k \in DOMAIN seeds : j # k => seeds[j] # seeds[k]
             /\ random_state = seed_before + i)
    /\ [][(pc = "pass" /\ i' = i + 1) => random_state' = random_state + 1]_vars

C21_Witness ==
    /\ pc = "pass"
    /\ collect_n = 2
    /\ i = 2
    /\ seeds = <<5, 6>>
    /\ random_state = 7

\* C22 (as claimed): at the start of every row and of every metric, each
\* registered variant has the parameters it had at construction.
C22_RegistryImmutable ==
    (runs >= 1 /\ pc \in {"resolve", "grid"})
    => params = [st \in Stages(steps) |-> EmptyAssignment]

====
